---- MODULE Spec2Model ----
(***************************************************************************)
(* Model of src/OOP_pump.py: class Pump (constructor, power, off_design).  *)
(*                                                                         *)
(* Numbers.  A Python float is modelled as an exact rational [n, d] in     *)
(* lowest terms with d > 0.  The record with d = 0 stands for "no value":  *)
(* an attribute that was never assigned, or an expression whose evaluation *)
(* raised (ZeroDivisionError, AttributeError, the backend's ValueError).   *)
(* Every arithmetic operator propagates "no value", and an assignment      *)
(* whose right-hand side has no value aborts the method at that statement, *)
(* as the exception does in Python.  IEEE-754 rounding is outside the      *)
(* model: results that differ from the exact ones by rounding only are     *)
(* not distinguished.                                                      *)
(*                                                                         *)
(* Backend.  CoolProp.PropsSI is an external library.  It is modelled as   *)
(* a deterministic stand-in: a pure function of its arguments, all of      *)
(* whose property pairs describe the same state point, and which raises    *)
(* outside a validity envelope or for an unknown fluid name.               *)
(***************************************************************************)
EXTENDS Integers, Sequences, FiniteSets, TLC

VARIABLES self, pre, op, lastPower, firstOut, calls

vars == <<self, pre, op, lastPower, firstOut, calls>>

(***************************************************************************)
(* Rational arithmetic (Python float operators + - * / ** and compare).    *)
(***************************************************************************)
NaV == [n |-> 0, d |-> 0]

IsVal(a) == a.d # 0

Abs(x) == IF x < 0 THEN -x ELSE x

RECURSIVE GCD(_, _)
GCD(a, b) == IF b = 0 THEN a ELSE GCD(b, a % b)

Rat(n, d) ==
    IF d = 0 THEN NaV
    ELSE LET g == GCD(Abs(n), Abs(d))
             s == IF d < 0 THEN -1 ELSE 1
         IN  [n |-> s * (n \div g), d |-> s * (d \div g)]

Num(k) == [n |-> k, d |-> 1]

Neg(a) == IF IsVal(a) THEN [n |-> -a.n, d |-> a.d] ELSE NaV

Add(a, b) ==
    IF IsVal(a) /\ IsVal(b)
    THEN LET g == GCD(a.d, b.d)
         IN  Rat(a.n * (b.d \div g) + b.n * (a.d \div g), a.d * (b.d \div g))
    ELSE NaV

Sub(a, b) == Add(a, Neg(b))

Mul(a, b) ==
    IF IsVal(a) /\ IsVal(b)
    THEN LET g1 == GCD(Abs(a.n), b.d)
             g2 == GCD(Abs(b.n), a.d)
         IN  Rat((a.n \div g1) * (b.n \div g2), (a.d \div g2) * (b.d \div g1))
    ELSE NaV

\* x / y raises ZeroDivisionError when y == 0
Div(a, b) ==
    IF IsVal(a) /\ IsVal(b) /\ b.n # 0
    THEN Mul(a, IF b.n < 0 THEN [n |-> -b.d, d |-> -b.n] ELSE [n |-> b.d, d |-> b.n])
    ELSE NaV

Pow2(a) == Mul(a, a)

Pow3(a) == Mul(a, Mul(a, a))

Less(a, b) == Sub(a, b).n < 0

Leq(a, b) == Sub(a, b).n <= 0

(***************************************************************************)
(* Unit constants used at the property-lookup boundary.                    *)
(***************************************************************************)
\* the factor 1000 between kPa, kJ/kg, kJ/(kg K) and Pa, J/kg, J/(kg K)
Kilo == 1000

\* the offset 273.15 between degrees Celsius and Kelvin
Kelvin == Rat(27315, 100)

(***************************************************************************)
(* Property backend: stand-in for CoolProp.PropsSI(out, in1, v1, 'P', v2,  *)
(* medium).  Each known fluid is a linear liquid: with T in K and P in Pa, *)
(*   Hmass = cp (T - 273.15) + P / rho,  Smass = cs (T - 273.15),          *)
(*   Dmass = rho.                                                          *)
(* A lookup first resolves the state point (T, P) from its two inputs and  *)
(* raises (no value) for an unknown fluid or a point outside the envelope. *)
(***************************************************************************)
KnownMedia == {"Water", "Toluene"}

FluidCp(medium) == IF medium = "Water" THEN Num(100) ELSE Num(50)

FluidCs(medium) == IF medium = "Water" THEN Num(10) ELSE Num(4)

FluidRho(medium) == IF medium = "Water" THEN Num(1000) ELSE Num(800)

\* envelope: 0 C .. 40 C, 1 kPa .. 1000 kPa
EnvTmin == Kelvin

EnvTmax == Add(Kelvin, Num(40))

EnvPmin == Num(1000)

EnvPmax == Num(1000000)

\* temperature of the state point given by (in1 = v1, P = v2)
StateT(in1, v1, v2, medium) ==
    IF in1 = "T" THEN v1
    ELSE IF in1 = "Smass" THEN Add(Kelvin, Div(v1, FluidCs(medium)))
    ELSE IF in1 = "Hmass"
         THEN Add(Kelvin, Div(Sub(v1, Div(v2, FluidRho(medium))), FluidCp(medium)))
    ELSE NaV

InEnvelope(T, P, medium) ==
    /\ medium \in KnownMedia
    /\ IsVal(T) /\ IsVal(P)
    /\ Leq(EnvTmin, T) /\ Leq(T, EnvTmax)
    /\ Leq(EnvPmin, P) /\ Leq(P, EnvPmax)

PropsSI(out, in1, v1, in2, v2, medium) ==
    LET T == StateT(in1, v1, v2, medium)
    IN  IF in2 # "P" \/ ~InEnvelope(T, v2, medium) THEN NaV
        ELSE IF out = "T" THEN T
        ELSE IF out = "Hmass"
             THEN Add(Mul(FluidCp(medium), Sub(T, Kelvin)), Div(v2, FluidRho(medium)))
        ELSE IF out = "Smass" THEN Mul(FluidCs(medium), Sub(T, Kelvin))
        ELSE IF out = "Dmass" THEN FluidRho(medium)
        ELSE NaV

(***************************************************************************)
(* The object.  Blank is the instance before __init__ has assigned         *)
(* anything.  A frame is the instance together with the flag "an exception *)
(* has been raised"; SetAttr is one assignment statement self.name = v.    *)
(***************************************************************************)
DesignNum == {"T_in", "p_in", "p_out", "mf", "h_in", "s_in", "s_out_s", "h_out_s",
              "T_out_s", "rho_in", "V_in", "eta_iP", "h_out", "T_out", "s_out", "N_iP"}

OffNum == {"T_in_off", "p_in_off", "p_out_off", "mf_off", "h_in_off", "s_in_off",
           "s_out_s_off", "h_out_s_off", "T_out_s_off", "rho_in_off", "V_in_off",
           "eta_iP_off", "h_out_off", "T_out_off", "s_out_off", "N_iP_off"}

Blank == [f \in DesignNum \cup OffNum |-> NaV] @@ [medium |-> ""]

Frame(obj) == [self |-> obj, err |-> FALSE]

SetAttr(fr, name, v) ==
    IF fr.err THEN fr
    ELSE IF ~IsVal(v) THEN [fr EXCEPT !.err = TRUE]
    ELSE [fr EXCEPT !.self = [fr.self EXCEPT ![name] = v]]

SetMedium(fr, m) == [fr EXCEPT !.self = [fr.self EXCEPT !["medium"] = m]]

\* value of the expression self.name; no value (AttributeError) when unset
Get(fr, name) == fr.self[name]

ToK(t) == Add(t, Kelvin)

FromK(t) == Sub(t, Kelvin)

ToSI(x) == Mul(x, Num(Kilo))

FromSI(x) == Div(x, Num(Kilo))

(***************************************************************************)
(* Pump.__init__(T_in, p_in, p_out, mf, medium).  One operator per         *)
(* assignment statement, named after its source line; fr is the frame the  *)
(* statement runs in.                                                      *)
(***************************************************************************)
init_L19(fr, T_in) == SetAttr(fr, "T_in", T_in)

init_L20(fr, p_in) == SetAttr(fr, "p_in", p_in)

init_L21(fr, p_out) == SetAttr(fr, "p_out", p_out)

init_L22(fr, mf) == SetAttr(fr, "mf", mf)

init_L23(fr, medium) == SetMedium(fr, medium)

init_L41(fr) ==
    SetAttr(fr, "h_in",
        FromSI(PropsSI("Hmass", "T", ToK(Get(fr, "T_in")),
                       "P", ToSI(Get(fr, "p_in")), fr.self.medium)))

init_L42(fr) ==
    SetAttr(fr, "s_in",
        FromSI(PropsSI("Smass", "T", ToK(Get(fr, "T_in")),
                       "P", ToSI(Get(fr, "p_in")), fr.self.medium)))

init_L45(fr) == SetAttr(fr, "s_out_s", Get(fr, "s_in"))

\* line 46 with the inlet pressure in place of the outlet pressure
init_L46_pin(fr) ==
    SetAttr(fr, "h_out_s",
        FromSI(PropsSI("Hmass", "Smass", ToSI(Get(fr, "s_out_s")),
                       "P", ToSI(Get(fr, "p_in")), fr.self.medium)))

init_L46(fr) ==
    SetAttr(fr, "h_out_s",
        FromSI(PropsSI("Hmass", "Smass", ToSI(Get(fr, "s_out_s")),
                       "P", ToSI(Get(fr, "p_out")), fr.self.medium)))

init_L47(fr) ==
    SetAttr(fr, "T_out_s",
        FromK(PropsSI("T", "Smass", ToSI(Get(fr, "s_out_s")),
                      "P", ToSI(Get(fr, "p_out")), fr.self.medium)))

init_L49(fr) ==
    SetAttr(fr, "rho_in",
        PropsSI("Dmass", "Hmass", ToSI(Get(fr, "h_in")),
                "P", ToSI(Get(fr, "p_in")), fr.self.medium))

init_L50(fr, mf) == SetAttr(fr, "V_in", Div(mf, Get(fr, "rho_in")))

construct(T_in, p_in, p_out, mf, medium) ==
    LET f1 == init_L19(Frame(Blank), T_in)
        f2 == init_L20(f1, p_in)
        f3 == init_L21(f2, p_out)
        f4 == init_L22(f3, mf)
        f5 == init_L23(f4, medium)
        f6 == init_L41(f5)
        f7 == init_L42(f6)
        f8 == init_L45(f7)
        f9 == init_L46(f8)
        f10 == init_L47(f9)
        f11 == init_L49(f10)
        f12 == init_L50(f11, mf)
    IN  f12

(***************************************************************************)
(* Pump.power(eta_iP)                                                      *)
(***************************************************************************)
power_L78(fr, eta_iP) == SetAttr(fr, "eta_iP", eta_iP)

\* line 79 multiplying by the efficiency instead of dividing by it
power_L79_times(fr) ==
    SetAttr(fr, "h_out",
        Add(Get(fr, "h_in"),
            Mul(Sub(Get(fr, "h_out_s"), Get(fr, "h_in")), Get(fr, "eta_iP"))))

power_L79(fr) ==
    SetAttr(fr, "h_out",
        Add(Get(fr, "h_in"),
            Div(Sub(Get(fr, "h_out_s"), Get(fr, "h_in")), Get(fr, "eta_iP"))))

power_L80(fr) ==
    SetAttr(fr, "T_out",
        FromK(PropsSI("T", "Hmass", ToSI(Get(fr, "h_out")),
                      "P", ToSI(Get(fr, "p_out")), fr.self.medium)))

power_L81(fr) ==
    SetAttr(fr, "s_out",
        FromSI(PropsSI("Smass", "T", ToK(Get(fr, "T_out")),
                       "P", ToSI(Get(fr, "p_out")), fr.self.medium)))

\* line 82 with the isentropic outlet enthalpy in place of the real one
power_L82_ideal(fr) ==
    SetAttr(fr, "N_iP", Mul(Get(fr, "mf"), Sub(Get(fr, "h_out_s"), Get(fr, "h_in"))))

\* line 82 with the off-design mass flow in place of the design one
power_L82_mf_off(fr) ==
    SetAttr(fr, "N_iP", Mul(Get(fr, "mf_off"), Sub(Get(fr, "h_out"), Get(fr, "h_in"))))

power_L82(fr) ==
    SetAttr(fr, "N_iP", Mul(Get(fr, "mf"), Sub(Get(fr, "h_out"), Get(fr, "h_in"))))

\* power with line 82 moved before the lookups of lines 80 and 81
power_reordered(obj, eta_iP) ==
    LET f1 == power_L78(Frame(obj), eta_iP)
        f2 == power_L79(f1)
        f3 == power_L82(f2)
        f4 == power_L80(f3)
        f5 == power_L81(f4)
    IN  f5

\* power committing its assignments only when no statement raised
power_atomic(obj, eta_iP) ==
    LET f1 == power_L78(Frame(obj), eta_iP)
        f2 == power_L79(f1)
        f3 == power_L80(f2)
        f4 == power_L81(f3)
        f5 == power_L82(f4)
    IN  IF f5.err THEN [self |-> obj, err |-> TRUE] ELSE f5

power(obj, eta_iP) ==
    LET f1 == power_L78(Frame(obj), eta_iP)
        f2 == power_L79(f1)
        f3 == power_L80(f2)
        f4 == power_L81(f3)
        f5 == power_L82(f4)
    IN  f5

(***************************************************************************)
(* Pump.off_design(T_in_off, p_in_off, p_out_off, mf_off)                  *)
(***************************************************************************)
\* the cubic with 0.5879 for its constant term
Correction_typo(r) ==
    Add(Add(Sub(Mul(Rat(-168, 1000), Pow3(r)),
                Mul(Rat(336, 10000), Pow2(r))),
            Mul(Rat(6317, 10000), r)),
        Rat(5879, 10000))

\* the cubic of line 106, evaluated left to right as Python does:
\* -0.168*r**3 - 0.0336*r**2 + 0.6317*r + 0.5699
Correction(r) ==
    Add(Add(Sub(Mul(Rat(-168, 1000), Pow3(r)),
                Mul(Rat(336, 10000), Pow2(r))),
            Mul(Rat(6317, 10000), r)),
        Rat(5699, 10000))

off_L91(fr, T_in_off) == SetAttr(fr, "T_in_off", T_in_off)

off_L92(fr, p_in_off) == SetAttr(fr, "p_in_off", p_in_off)

off_L93(fr, p_out_off) == SetAttr(fr, "p_out_off", p_out_off)

off_L94(fr, mf_off) == SetAttr(fr, "mf_off", mf_off)

off_L96(fr) ==
    SetAttr(fr, "h_in_off",
        FromSI(PropsSI("Hmass", "T", ToK(Get(fr, "T_in_off")),
                       "P", ToSI(Get(fr, "p_in_off")), fr.self.medium)))

off_L97(fr) ==
    SetAttr(fr, "s_in_off",
        FromSI(PropsSI("Smass", "T", ToK(Get(fr, "T_in_off")),
                       "P", ToSI(Get(fr, "p_in_off")), fr.self.medium)))

\* line 99 copying the design-point inlet entropy
off_L99_design(fr) == SetAttr(fr, "s_out_s_off", Get(fr, "s_in"))

off_L99(fr) == SetAttr(fr, "s_out_s_off", Get(fr, "s_in_off"))

off_L100(fr) ==
    SetAttr(fr, "h_out_s_off",
        FromSI(PropsSI("Hmass", "Smass", ToSI(Get(fr, "s_out_s_off")),
                       "P", ToSI(Get(fr, "p_out_off")), fr.self.medium)))

off_L101(fr) ==
    SetAttr(fr, "T_out_s_off",
        FromK(PropsSI("T", "Smass", ToSI(Get(fr, "s_out_s_off")),
                      "P", ToSI(Get(fr, "p_out_off")), fr.self.medium)))

off_L103(fr, p_in_off) ==
    SetAttr(fr, "rho_in_off",
        PropsSI("Dmass", "Hmass", ToSI(Get(fr, "h_in_off")),
                "P", ToSI(p_in_off), fr.self.medium))

off_L104(fr, mf_off) == SetAttr(fr, "V_in_off", Div(mf_off, Get(fr, "rho_in_off")))

\* line 106 assigning eta_iP instead of eta_iP_off
off_L106_design(fr) ==
    SetAttr(fr, "eta_iP",
        Mul(Correction(Div(Get(fr, "V_in"), Get(fr, "V_in_off"))), Get(fr, "eta_iP")))

\* line 106 taking an efficiency of 1 when eta_iP was never assigned
off_L106_default(fr) ==
    SetAttr(fr, "eta_iP_off",
        Mul(Correction(Div(Get(fr, "V_in"), Get(fr, "V_in_off"))),
            IF IsVal(Get(fr, "eta_iP")) THEN Get(fr, "eta_iP") ELSE Num(1)))

off_L106(fr) ==
    SetAttr(fr, "eta_iP_off",
        Mul(Correction(Div(Get(fr, "V_in"), Get(fr, "V_in_off"))), Get(fr, "eta_iP")))

off_L108(fr) ==
    SetAttr(fr, "h_out_off",
        Add(Get(fr, "h_in_off"),
            Div(Sub(Get(fr, "h_out_s_off"), Get(fr, "h_in_off")), Get(fr, "eta_iP_off"))))

off_L109(fr) ==
    SetAttr(fr, "T_out_off",
        FromK(PropsSI("T", "Hmass", ToSI(Get(fr, "h_out_off")),
                      "P", ToSI(Get(fr, "p_out_off")), fr.self.medium)))

off_L110(fr) ==
    SetAttr(fr, "s_out_off",
        FromSI(PropsSI("Smass", "T", ToK(Get(fr, "T_out_off")),
                       "P", ToSI(Get(fr, "p_out_off")), fr.self.medium)))

off_L111(fr) ==
    SetAttr(fr, "N_iP_off",
        Mul(Get(fr, "mf_off"), Sub(Get(fr, "h_out_off"), Get(fr, "h_in_off"))))

off_design(obj, T_in_off, p_in_off, p_out_off, mf_off) ==
    LET f1 == off_L91(Frame(obj), T_in_off)
        f2 == off_L92(f1, p_in_off)
        f3 == off_L93(f2, p_out_off)
        f4 == off_L94(f3, mf_off)
        f5 == off_L96(f4)
        f6 == off_L97(f5)
        f7 == off_L99(f6)
        f8 == off_L100(f7)
        f9 == off_L101(f8)
        f10 == off_L103(f9, p_in_off)
        f11 == off_L104(f10, mf_off)
        f12 == off_L106(f11)
        f13 == off_L108(f12)
        f14 == off_L109(f13)
        f15 == off_L110(f14)
        f16 == off_L111(f15)
    IN  f16

(***************************************************************************)
(* Inputs of the calls.                                                    *)
(***************************************************************************)
\* mass flows range over 0 .. MaxMf kg/s
MaxMf == 2

\* number of method calls made on one instance
MaxCalls == 3

TinSet == {Num(30)}

PinSet == {Num(100)}

PoutSet == {Num(100), Num(500)}

MfSet == {Num(k) : k \in 0 .. MaxMf}

\* fluid names passed to the constructor; the backend knows only some
Media == {"Water", "Unobtainium"}

\* 0 divides by zero, 1/4 overheats the fluid, 2 lies outside (0, 1]
EtaSet == {Num(0), Rat(1, 4), Rat(3, 4), Num(1), Num(2)}

\* (T_in_off, p_in_off, p_out_off, mf_off): every mass flow at one valid
\* state point, a second valid inlet temperature, and an inlet temperature
\* and an outlet pressure outside the envelope
OffArgs ==
    {<<Num(25), Num(100), Num(500), m>> : m \in MfSet}
        \cup {<<Num(35), Num(100), Num(500), Num(1)>>,
              <<Num(50), Num(100), Num(500), Num(1)>>,
              <<Num(25), Num(100), Num(2000), Num(1)>>}

(***************************************************************************)
(* State machine.  self is the instance; the other variables record the    *)
(* call history: pre is the instance immediately before the latest call,   *)
(* op the latest call, whether it returned normally and whether it is a    *)
(* power call repeating the argument of the previous power call,           *)
(* lastPower the argument of the latest power call (no value: power was    *)
(* never called) and whether that call returned normally, firstOut the     *)
(* result fields left by the first of the latest run of power calls with   *)
(* one and the same argument, and calls the number of calls made.          *)
(***************************************************************************)
PowerFields == <<"eta_iP", "h_out", "T_out", "s_out", "N_iP">>

OffFields == <<"T_in_off", "p_in_off", "p_out_off", "mf_off", "h_in_off", "s_in_off",
               "s_out_s_off", "h_out_s_off", "T_out_s_off", "rho_in_off", "V_in_off",
               "eta_iP_off", "h_out_off", "T_out_off", "s_out_off", "N_iP_off">>

Proj(obj, names) == [i \in DOMAIN names |-> obj[names[i]]]

NoArgs == <<>>

Init ==
    \E T_in \in TinSet, p_in \in PinSet, p_out \in PoutSet, mf \in MfSet, medium \in Media :
        LET fr == construct(T_in, p_in, p_out, mf, medium)
        IN  /\ ~fr.err
            /\ self = fr.self
            /\ pre = Blank
            /\ op = [name |-> "init", args |-> NoArgs, ok |-> TRUE, repeat |-> FALSE]
            /\ lastPower = [eta |-> NaV, ok |-> FALSE]
            /\ firstOut = Proj(fr.self, PowerFields)
            /\ calls = 0

Power ==
    \E eta_iP \in EtaSet :
        LET fr == power(self, eta_iP)
        IN  /\ calls < MaxCalls
            /\ calls' = calls + 1
            /\ self' = fr.self
            /\ pre' = self
            /\ op' = [name |-> "power", args |-> <<eta_iP>>, ok |-> ~fr.err,
                      repeat |-> (lastPower.eta = eta_iP)]
            /\ lastPower' = [eta |-> eta_iP, ok |-> ~fr.err]
            /\ firstOut' = IF lastPower.eta = eta_iP THEN firstOut
                           ELSE Proj(fr.self, PowerFields)

OffDesign ==
    \E a \in OffArgs :
        LET fr == off_design(self, a[1], a[2], a[3], a[4])
        IN  /\ calls < MaxCalls
            /\ calls' = calls + 1
            /\ self' = fr.self
            /\ pre' = self
            /\ op' = [name |-> "off_design", args |-> a, ok |-> ~fr.err, repeat |-> FALSE]
            /\ UNCHANGED <<lastPower, firstOut>>

Next == Power \/ OffDesign

Spec == Init /\ [][Next]_vars

(***************************************************************************)
(* Properties.                                                             *)
(***************************************************************************)
DesignFields == DesignNum \cup {"medium"}

PowerCall == op.name = "power"

OffCall == op.name = "off_design"

\* some proper prefix of names, of at least lo fields, holds assigned values
\* and every field after it is as it was before the call
PrefixWritten(names, lo) ==
    \E k \in lo .. (Len(names) - 1) :
        /\ \A i \in 1 .. k : IsVal(self[names[i]])
        /\ \A i \in (k + 1) .. Len(names) : self[names[i]] = pre[names[i]]

AllWritten(names) == \A i \in 1 .. Len(names) : IsVal(self[names[i]])

\* C1: after any off_design call, returning normally or failing part-way,
\* every design-point field has the value it had immediately before the call.
C1_OffDesignFrame == OffCall => \A f \in DesignFields : self[f] = pre[f]

C1_Witness ==
    /\ OffCall /\ op.ok
    /\ IsVal(pre.N_iP)
    /\ self.eta_iP_off # self.eta_iP

\* C2 as stated: a failing power or off_design call leaves every field the
\* method writes at the value it had before the call.
C2_AllOrNothing ==
    /\ (PowerCall /\ ~op.ok) => Proj(self, PowerFields) = Proj(pre, PowerFields)
    /\ (OffCall /\ ~op.ok) => Proj(self, OffFields) = Proj(pre, OffFields)

\* C2 amended: a call that returns normally has assigned every field the
\* method writes; a call that fails has stored its arguments (eta_iP for
\* power; T_in_off, p_in_off, p_out_off, mf_off for off_design) and every
\* field assigned before the failing statement, and leaves the fields assigned
\* after it, the last one (N_iP, N_iP_off) among them, as they were.
C2_PrefixUpdate ==
    /\ PowerCall => self.eta_iP = op.args[1]
    /\ (PowerCall /\ op.ok) => AllWritten(PowerFields)
    /\ (PowerCall /\ ~op.ok) => PrefixWritten(PowerFields, 1)
    /\ OffCall => \A i \in 1 .. 4 : self[OffFields[i]] = op.args[i]
    /\ (OffCall /\ op.ok) => AllWritten(OffFields)
    /\ (OffCall /\ ~op.ok) => PrefixWritten(OffFields, 4)

C2_Witness ==
    /\ PowerCall /\ ~op.ok
    /\ self.eta_iP # pre.eta_iP
    /\ self.h_out # pre.h_out
    /\ IsVal(pre.N_iP) /\ self.N_iP = pre.N_iP

\* C3 as stated: when the off-design volumetric flow equals the design one,
\* off_design yields eta_iP_off == eta_iP * 1.0180.
C3_Factor10180 ==
    (OffCall /\ op.ok /\ self.V_in = self.V_in_off)
        => self.eta_iP_off = Mul(self.eta_iP, Rat(10180, 10000))

\* C3 amended: the correction factor at r = 1 is 1.0000, so with equal
\* volumetric flows off_design yields eta_iP_off == eta_iP.
C3_FactorOne ==
    (OffCall /\ op.ok /\ self.V_in = self.V_in_off)
        => (Correction(Div(self.V_in, self.V_in_off)) = Num(1)
            /\ self.eta_iP_off = self.eta_iP)

C3_Witness ==
    /\ OffCall /\ op.ok
    /\ self.V_in = self.V_in_off
    /\ self.eta_iP = Rat(3, 4)

\* C4: power(1.0) yields h_out == h_out_s and T_out == T_out_s.
C4_IdealEfficiency ==
    (PowerCall /\ op.ok /\ op.args[1] = Num(1))
        => (self.h_out = self.h_out_s /\ self.T_out = self.T_out_s)

C4_Witness ==
    /\ PowerCall /\ op.ok /\ op.args[1] = Num(1)
    /\ Less(self.h_in, self.h_out_s)

\* C5: once power has returned normally, N_iP == mf * (h_out - h_in), with
\* mf and h_in from construction and h_out written by that call; off_design
\* calls made afterwards do not disturb it.
C5_EnergyBalance ==
    lastPower.ok => self.N_iP = Mul(self.mf, Sub(self.h_out, self.h_in))

C5_Witness ==
    /\ lastPower.ok
    /\ self.N_iP.n > 0
    /\ self.h_out # self.h_out_s
    /\ OffCall

\* C6: a power call that repeats the argument of the previous power call,
\* directly or after off_design calls, leaves eta_iP, h_out, T_out, s_out
\* and N_iP exactly as the first of these power calls left them.
C6_PowerIdempotent == (PowerCall /\ op.repeat) => Proj(self, PowerFields) = firstOut

C6_Witness ==
    /\ PowerCall /\ op.repeat /\ op.ok
    /\ IsVal(self.N_iP_off)
    /\ self.h_out # self.h_out_s

\* C7: an off_design call returns normally only after some power call, and
\* eta_iP_off is never assigned while power has never been called.
C7_OffDesignNeedsPower ==
    /\ (OffCall /\ op.ok) => IsVal(lastPower.eta)
    /\ IsVal(self.eta_iP_off) => IsVal(lastPower.eta)

C7_Witness ==
    /\ OffCall /\ ~op.ok
    /\ ~IsVal(lastPower.eta)
    /\ IsVal(self.V_in_off) /\ self.V_in_off.n # 0
    /\ ~IsVal(self.eta_iP_off)

\* C8: s_out_s == s_in after construction and after every sequence of
\* calls, and s_out_s_off == s_in_off whenever s_out_s_off is assigned.
C8_Isentropic ==
    /\ IsVal(self.s_in) /\ self.s_out_s = self.s_in
    /\ IsVal(self.s_out_s_off) => self.s_out_s_off = self.s_in_off

C8_Witness ==
    /\ OffCall
    /\ IsVal(pre.s_in_off)
    /\ self.s_in_off # pre.s_in_off
    /\ self.s_in_off # self.s_in

\* C9: with mf > 0, h_out_s >= h_in and eta_iP in (0, 1], a power call that
\* returns yields N_iP >= 0 and h_out >= h_out_s; with h_out_s > h_in and
\* eta_iP < 1 it yields h_out_s < h_out and N_iP > 0.
C9_PowerSign ==
    (/\ PowerCall /\ op.ok
     /\ self.mf.n > 0
     /\ Leq(self.h_in, self.h_out_s)
     /\ op.args[1].n > 0 /\ Leq(op.args[1], Num(1)))
        => /\ self.N_iP.n >= 0
           /\ Leq(self.h_out_s, self.h_out)
           /\ (Less(self.h_in, self.h_out_s) /\ Less(op.args[1], Num(1)))
                  => (Less(self.h_out_s, self.h_out) /\ self.N_iP.n > 0)

C9_Witness ==
    /\ PowerCall /\ op.ok
    /\ self.mf.n > 0
    /\ Less(self.h_in, self.h_out_s)
    /\ op.args[1] = Rat(3, 4)

\* C10: an off_design call that returns normally sets
\* eta_iP_off == f(V_in / V_in_off) * e, where e is the argument of the
\* latest power call, also when that power call failed after storing it.
C10_LastPowerEta ==
    (OffCall /\ op.ok)
        => self.eta_iP_off =
               Mul(Correction(Div(self.V_in, self.V_in_off)), lastPower.eta)

C10_Witness ==
    /\ OffCall /\ op.ok
    /\ ~lastPower.ok
    /\ self.V_in # self.V_in_off

====
